---------------------------- MODULE Spec2Model ----------------------------
(***************************************************************************)
(* Model of the narration pipeline of coolmannine/MR:                      *)
(*   - TTSPipeline (src/tts_pipeline.py): _split_ssml, _synthesize_chunk,  *)
(*     process_chapter, process_all;                                       *)
(*   - create_chapter_video (src/video_maker.py).                          *)
(* Strings are sequences of one-character strings, so that len(), slicing, *)
(* strip() and the regular expression of _split_ssml are computed on the   *)
(* characters.  Times are whole milliseconds.                              *)
(***************************************************************************)
EXTENDS Integers, Sequences, FiniteSets, TLC

VARIABLES
    \* TTSPipeline object
    max_ssml_length,    \* self.max_ssml_length
    \* one call of _split_ssml
    ssml_in,            \* the argument ssml
    split_out,          \* the returned list of chunks, NoValue before the return
    \* process_all / process_chapter
    scripts,            \* the *.txt files of scripts_folder: chapter -> text
    path_idx,           \* position of process_all's loop in txt_files
    pc,                 \* "idle" | "synth" | "assemble" | "finished"
    chunks,             \* process_chapter: chunks
    chunk_files,        \* process_chapter: chunk_files
    global_timepoints,  \* process_chapter: global_timepoints
    offset,             \* process_chapter: offset
    temp_dir,           \* output/temp: file name -> decoded audio
    temp_exists,        \* whether output/temp exists
    audio_files,        \* output/audio: chapter -> exported audio
    timepoint_files,    \* output/timepoints: chapter -> persisted timeline
    responses,          \* what _synthesize_chunk returned, in call order
    results,            \* process_all: results
    log,                \* what process_all passes to logging.error
    \* create_chapter_video
    tp_file,            \* timepoints/chapterN.json (NoValue: missing)
    audio_duration,     \* duration of audio/chapterN.mp3 (NoValue: missing)
    img_folder,         \* the files of chapters/chapterN
    vpc,                \* "start" | "loop" | "built" | "returned" | "composed" | "raised"
    transitions,        \* create_chapter_video: transitions
    images,             \* create_chapter_video: images
    idx,                \* create_chapter_video: the loop's next idx
    clips               \* create_chapter_video: clips

cvars == <<ssml_in, split_out>>
pvars == <<scripts, path_idx, pc, chunks, chunk_files, global_timepoints,
           offset, temp_dir, temp_exists, audio_files, timepoint_files,
           responses, results, log>>
vvars == <<tp_file, audio_duration, img_folder, vpc, transitions, images,
           idx, clips>>
vars == <<max_ssml_length, cvars, pvars, vvars>>

\* A file or a return value that may be missing: <<>> when it is, <<v>> when
\* it holds v.
NoValue == <<>>
Some(v) == <<v>>
ValueOf(f) == f[1]

---------------------------------------------------------------------------
(* Bounds of the model.                                                    *)

MaxPieces == 3      \* pieces (text runs, tags) a document is made of
MaxBudget == 38     \* largest max_ssml_length tried on _split_ssml
SmallBudget == 18   \* the pipeline's max_ssml_length is this or twice this
NumChapters == 2    \* *.txt files in scripts_folder
MaxChunkDur == 2    \* longest chunk audio, in ms
MaxLocalTime == 2   \* largest timeSeconds of a response, in ms
MaxMarkers == 2     \* records of a timepoints file given to the video maker
MaxTime == 3        \* largest timestamp and audio duration given to it
MaxImages == 3      \* image files of a chapter folder

---------------------------------------------------------------------------
(* Strings.                                                                *)

SPEAK_OPEN == <<"<", "s", "p", "e", "a", "k", ">">>
SPEAK_CLOSE == <<"<", "/", "s", "p", "e", "a", "k", ">">>
MARK_PREFIX == <<"<", "m", "a", "r", "k", " ", "n", "a", "m", "e", "=", "\"">>
MARK_SUFFIX == <<"\"", "/", ">">>

MinOf(S) == CHOOSE m \in S : \A n \in S : m <= n

RECURSIVE Flatten(_)
Flatten(ss) == IF ss = <<>> THEN <<>> ELSE Head(ss) \o Flatten(Tail(ss))

RECURSIVE SumSeq(_)
SumSeq(ns) == IF ns = <<>> THEN 0 ELSE Head(ns) + SumSeq(Tail(ns))

startswith(s, p) == Len(s) >= Len(p) /\ SubSeq(s, 1, Len(p)) = p
endswith(s, p) == Len(s) >= Len(p) /\ SubSeq(s, Len(s) - Len(p) + 1, Len(s)) = p

\* str.strip(): leading and trailing whitespace removed
RECURSIVE strip(_)
strip(s) ==
    IF s = <<>> THEN s
    ELSE IF Head(s) = " " THEN strip(Tail(s))
    ELSE IF s[Len(s)] = " " THEN strip(SubSeq(s, 1, Len(s) - 1))
    ELSE s

\* f"<speak>{text}</speak>"
Wrap(text) == SPEAK_OPEN \o text \o SPEAK_CLOSE

---------------------------------------------------------------------------
(* _split_ssml.                                                            *)

\* The end of the match of <mark name="[^"]+"/> that starts at position i of s,
\* 0 when there is none: the name runs to the first quote after the prefix
\* and holds at least one character.
MatchEnd(s, i) ==
    LET n == Len(MARK_PREFIX) IN
    IF ~(i + n - 1 <= Len(s) /\ SubSeq(s, i, i + n - 1) = MARK_PREFIX) THEN 0
    ELSE LET quotes == {q \in (i + n)..Len(s) : s[q] = "\""} IN
         IF quotes = {} THEN 0
         ELSE LET q == MinOf(quotes) IN
              IF /\ q > i + n
                 /\ q + 2 <= Len(s)
                 /\ SubSeq(s, q, q + 2) = MARK_SUFFIX
              THEN q + 2 ELSE 0

\* A split that knows no tags: one part per character.
RECURSIVE re_split_chars(_)
re_split_chars(s) ==
    IF s = <<>> THEN << <<>> >>
    ELSE IF Len(s) = 1 THEN <<s>>
    ELSE << <<Head(s)>> >> \o re_split_chars(Tail(s))

\* re.split(r"(<mark name=\"[^\"]+\"/>)", s): text, tag, text, ..., text
RECURSIVE re_split(_)
re_split(s) ==
    LET starts == {i \in 1..Len(s) : MatchEnd(s, i) # 0} IN
    IF starts = {} THEN <<s>>
    ELSE LET i == MinOf(starts)
             e == MatchEnd(s, i)
         IN <<SubSeq(s, 1, i - 1), SubSeq(s, i, e)>>
                \o re_split(SubSeq(s, e + 1, Len(s)))

\* The loop with a lost part: the part that closes a chunk is not carried
\* into the next one.
RECURSIVE split_loop_lossy(_, _, _, _, _)
split_loop_lossy(parts, k, chunks_, current, max) ==
    IF k > Len(parts)
    THEN IF current # <<>> THEN Append(chunks_, Wrap(current)) ELSE chunks_
    ELSE LET flush == Len(current) + Len(parts[k]) > max IN
         split_loop_lossy(parts, k + 1,
                          IF flush THEN Append(chunks_, Wrap(current)) ELSE chunks_,
                          IF flush THEN <<>> ELSE current \o parts[k],
                          max)

\* The loop of _split_ssml from part k on, and the trailing flush.
RECURSIVE split_loop(_, _, _, _, _)
split_loop(parts, k, chunks_, current, max) ==
    IF k > Len(parts)
    THEN IF current # <<>> THEN Append(chunks_, Wrap(current)) ELSE chunks_
    ELSE LET flush == Len(current) + Len(parts[k]) > max IN
         split_loop(parts, k + 1,
                    IF flush THEN Append(chunks_, Wrap(current)) ELSE chunks_,
                    (IF flush THEN <<>> ELSE current) \o parts[k],
                    max)

\* ssml.strip() and the removal of one <speak> ... </speak> wrapper
Dewrap(ssml) ==
    LET s0 == strip(ssml)
        s1 == IF startswith(s0, SPEAK_OPEN)
              THEN SubSeq(s0, Len(SPEAK_OPEN) + 1, Len(s0)) ELSE s0
    IN IF endswith(s1, SPEAK_CLOSE)
       THEN SubSeq(s1, 1, Len(s1) - Len(SPEAK_CLOSE)) ELSE s1

_split_ssml(ssml, max) ==
    LET s == Dewrap(ssml) IN
    IF Len(s) <= max THEN <<Wrap(s)>>
    ELSE split_loop(re_split(s), 1, <<>>, <<>>, max)

---------------------------------------------------------------------------
(* Documents the model feeds to the chunker.                               *)

Tag(name) == MARK_PREFIX \o name \o MARK_SUFFIX
TagP1 == Tag(<<"p", "1">>)
TagP2 == Tag(<<"p", "2">>)

\* text runs, marker tags, and a tag-like run the expression does not match
Pieces == { <<"a">>, <<" ">>, <<"b", "c">>, TagP1, TagP2, Tag(<<>>) }

RECURSIVE PieceSeqs(_)
PieceSeqs(n) ==
    IF n = 0 THEN { <<>> }
    ELSE LET shorter == PieceSeqs(n - 1) IN
         shorter \cup { Append(ps, p) : ps \in {x \in shorter : Len(x) = n - 1},
                                        p \in Pieces }

Documents == { Flatten(ps) : ps \in PieceSeqs(MaxPieces) }

---------------------------------------------------------------------------
(* The synthesis service, as _synthesize_chunk sees it.                    *)

\* The mark names of a chunk, in order: the name of every tag of its text.
MarkNames(chunk) ==
    LET parts == re_split(chunk)
        tags == [k \in 1..(Len(parts) \div 2) |-> parts[2 * k]]
    IN [k \in 1..Len(tags) |->
            SubSeq(tags[k], Len(MARK_PREFIX) + 1, Len(tags[k]) - Len(MARK_SUFFIX))]

\* The durations and local times the responses are drawn from.
Durations == {1, MaxChunkDur}
LocalTimes == {0, 1, MaxLocalTime}

\* The "timepoints" a response may carry for marks `names`: any of the marks
\* may be missing, each reported one has any time.
RECURSIVE TimepointLists(_)
TimepointLists(names) ==
    IF names = <<>> THEN { <<>> }
    ELSE LET rest == TimepointLists(Tail(names)) IN
         rest \cup { <<[markName |-> Head(names), timeSeconds |-> t]>> \o r :
                        t \in LocalTimes, r \in rest }

\* What _synthesize_chunk returns when the response decodes.
SynthResults(chunk) ==
    { [duration |-> d, timepoints |-> tps] :
        d \in Durations, tps \in TimepointLists(MarkNames(chunk)) }

---------------------------------------------------------------------------
(* process_chapter and process_all.                                        *)

ScriptTwo == <<"a">> \o TagP1 \o <<"b">> \o TagP2
ScriptOne == <<" ", "a">> \o TagP1 \o <<" ">>
ScriptDocs == { ScriptOne, ScriptTwo }

Chapters == 1..NumChapters
\* sorted(Path(scripts_folder).glob("*.txt")) and the chapter number of each
txt_files == [k \in 1..NumChapters |-> k]
chap_num == txt_files[path_idx]

ChunkMp3(chapter, i) == <<chapter, i>>

\* The time points of one result with the offset forgotten.
RebasedLocal(off, tps) == tps

\* Lines 107-111: the time points of one result, moved by the offset.
Rebased(off, tps) ==
    [k \in 1..Len(tps) |->
        [markName |-> tps[k].markName, timeSeconds |-> off + tps[k].timeSeconds]]

\* The concatenation without the first chunk file.
CombinedTail(files, dir) ==
    [k \in 1..(Len(files) - 1) |-> dir[files[k + 1]]]

\* Lines 114-116: the segments of the chunk files, concatenated in order.
Combined(files, dir) == [k \in 1..Len(files) |-> dir[files[k]]]

\* len(AudioSegment), in ms
AudioLen(audio) == SumSeq([k \in 1..Len(audio) |-> audio[k].duration])

PInit ==
    /\ max_ssml_length \in {SmallBudget, 2 * SmallBudget}
    /\ scripts \in [Chapters -> ScriptDocs]
    /\ path_idx = 1
    /\ pc = "idle"
    /\ chunks = <<>>
    /\ chunk_files = <<>>
    /\ global_timepoints = <<>>
    /\ offset = 0
    /\ responses = <<>>
    /\ temp_dir = <<>>
    /\ temp_exists = FALSE
    /\ audio_files = [c \in Chapters |-> NoValue]
    /\ timepoint_files = [c \in Chapters |-> NoValue]
    /\ results = <<>>
    /\ log = <<>>

\* process_all: the loop moves to the next path, or ends.
NextPath ==
    /\ path_idx' = path_idx + 1
    /\ pc' = IF path_idx + 1 > Len(txt_files) THEN "finished" ELSE "idle"

\* process_all, lines 134-135: the exception is logged and the loop goes on.
Caught(kind) ==
    /\ log' = Append(log, [chapter |-> chap_num, error |-> kind])
    /\ NextPath

\* process_chapter, lines 92-102.
StartChapter ==
    /\ pc = "idle"
    /\ path_idx <= Len(txt_files)
    /\ temp_exists' = TRUE
    /\ chunks' = _split_ssml(Wrap(strip(scripts[chap_num])), max_ssml_length)
    /\ chunk_files' = <<>>
    /\ global_timepoints' = <<>>
    /\ offset' = 0
    /\ responses' = <<>>
    /\ pc' = "synth"
    /\ UNCHANGED <<max_ssml_length, scripts, path_idx, temp_dir, audio_files,
                   timepoint_files, results, log, cvars, vvars>>

InChunkLoop == pc = "synth" /\ Len(chunk_files) < Len(chunks)

\* Lines 103-112 with a response that decodes: one iteration of the loop.
SynthesizeChunk ==
    /\ InChunkLoop
    /\ LET i == Len(chunk_files) + 1
           chunk_mp3 == ChunkMp3(chap_num, i)
       IN \E result \in SynthResults(chunks[i]) :
            /\ temp_dir' = (chunk_mp3 :> [duration |-> result.duration,
                                         of |-> chunk_mp3]) @@ temp_dir
            /\ chunk_files' = Append(chunk_files, chunk_mp3)
            /\ global_timepoints' =
                   global_timepoints \o Rebased(offset, result.timepoints)
            /\ offset' = offset + result.duration
            /\ responses' = Append(responses, result)
            /\ pc' = IF i = Len(chunks) THEN "assemble" ELSE "synth"
    /\ UNCHANGED <<max_ssml_length, scripts, path_idx, chunks, temp_exists,
                   audio_files, timepoint_files, results, log, cvars, vvars>>

\* Lines 76-77: the request fails or raise_for_status() raises.
SynthesizeHttpError ==
    /\ InChunkLoop
    /\ Caught("HTTPError")
    /\ UNCHANGED <<max_ssml_length, scripts, chunks, chunk_files,
                   global_timepoints, offset, responses, temp_dir, temp_exists,
                   audio_files, timepoint_files, results, cvars, vvars>>

\* Lines 79-80: the response holds no "audioContent".
SynthesizeNoAudio ==
    /\ InChunkLoop
    /\ Caught("RuntimeError")
    /\ UNCHANGED <<max_ssml_length, scripts, chunks, chunk_files,
                   global_timepoints, offset, responses, temp_dir, temp_exists,
                   audio_files, timepoint_files, results, cvars, vvars>>

\* Lines 82-84: the bytes are written, and AudioSegment.from_file cannot
\* decode them.
SynthesizeUndecodable ==
    /\ InChunkLoop
    /\ temp_dir' = (ChunkMp3(chap_num, Len(chunk_files) + 1) :> [undecodable |-> TRUE])
                       @@ temp_dir
    /\ Caught("CouldntDecodeError")
    /\ UNCHANGED <<max_ssml_length, scripts, chunks, chunk_files,
                   global_timepoints, offset, responses, temp_exists,
                   audio_files, timepoint_files, results, cvars, vvars>>

\* What stays in output/temp once the chapter's chunk files are unlinked.
Leftover == DOMAIN temp_dir \ {chunk_files[k] : k \in 1..Len(chunk_files)}

\* Lines 114-124 and lines 132-133: the audio is exported, the chunk files and
\* the directory are removed, the timeline is written, the result recorded.
Assemble ==
    /\ pc = "assemble"
    /\ Leftover = {}
    /\ audio_files' = [audio_files EXCEPT
                         ![chap_num] = Some(Combined(chunk_files, temp_dir))]
    /\ temp_dir' = <<>>
    /\ temp_exists' = FALSE
    /\ timepoint_files' = [timepoint_files EXCEPT
                             ![chap_num] = Some(global_timepoints)]
    /\ results' = Append(results, [chapter |-> chap_num, audio |-> chap_num,
                                   timepoints |-> Len(global_timepoints)])
    /\ NextPath
    /\ UNCHANGED <<max_ssml_length, scripts, chunks, chunk_files,
                   global_timepoints, offset, responses, log, cvars, vvars>>

\* Lines 114-121: the audio is exported, the chunk files are removed, and
\* temp_dir.rmdir() raises because the directory still holds files.
AssembleRmdirFails ==
    /\ pc = "assemble"
    /\ Leftover # {}
    /\ audio_files' = [audio_files EXCEPT
                         ![chap_num] = Some(Combined(chunk_files, temp_dir))]
    /\ temp_dir' = [f \in Leftover |-> temp_dir[f]]
    /\ Caught("OSError")
    /\ UNCHANGED <<max_ssml_length, scripts, chunks, chunk_files,
                   global_timepoints, offset, responses, temp_exists,
                   timepoint_files, results, cvars, vvars>>

ChunkerIdle == ssml_in = <<>> /\ split_out = NoValue
VideoIdle ==
    /\ tp_file = NoValue
    /\ audio_duration = NoValue
    /\ img_folder = {}
    /\ vpc = "start"
    /\ transitions = <<>>
    /\ images = <<>>
    /\ idx = 0
    /\ clips = <<>>

Init == PInit /\ ChunkerIdle /\ VideoIdle

Next ==
    \/ StartChapter
    \/ SynthesizeChunk
    \/ SynthesizeHttpError
    \/ SynthesizeNoAudio
    \/ SynthesizeUndecodable
    \/ Assemble
    \/ AssembleRmdirFails

Spec == Init /\ [][Next]_vars

---------------------------------------------------------------------------
(* Claims about process_chapter and process_all, checked under Spec.       *)

\* The chapter whose process_chapter call ended last; the locals of that call
\* are still in place.
JustRan(ch) ==
    /\ pc \in {"idle", "finished"}
    /\ path_idx > 1
    /\ txt_files[path_idx - 1] = ch

DurBefore(rs, k) == SumSeq([j \in 1..(k - 1) |-> rs[j].duration])

\* The markers of every result in order, each at its local time plus the
\* durations of the results before it.
ExpectedTimeline(rs) ==
    Flatten([k \in 1..Len(rs) |->
        [m \in 1..Len(rs[k].timepoints) |->
            [markName |-> rs[k].timepoints[m].markName,
             timeSeconds |-> rs[k].timepoints[m].timeSeconds + DurBefore(rs, k)]]])

NonDecreasing(tl) ==
    \A k \in 1..(Len(tl) - 1) : tl[k].timeSeconds <= tl[k + 1].timeSeconds

SynthErrors == {"HTTPError", "RuntimeError", "CouldntDecodeError"}
SynthFailed(ch) ==
    \E k \in 1..Len(log) : log[k].chapter = ch /\ log[k].error \in SynthErrors

\* C1: during and after the chunk loop the accumulated timeline is the in-order
\* concatenation of the results' markers, each at local time + the sum of the
\* earlier durations, the offset is the sum of the durations so far, and the
\* timeline written for the chapter is that of all its results.
C1_TimelineAccumulation ==
    /\ global_timepoints = ExpectedTimeline(responses)
    /\ offset = DurBefore(responses, Len(responses) + 1)
    /\ \A ch \in Chapters :
          JustRan(ch) /\ ~SynthFailed(ch) /\ timepoint_files[ch] # NoValue
              => ValueOf(timepoint_files[ch]) = ExpectedTimeline(responses)

\* C1 witness: chunk 1 (duration 2, p1 at 1) then chunk 2 (duration 1, p2 at 1)
\* were accumulated and written as [(p1, 1), (p2, 3)], total 3.
C1_Witness ==
    \E ch \in Chapters :
        /\ JustRan(ch)
        /\ Len(responses) = 2
        /\ responses[1].duration = 2
        /\ timepoint_files[ch] # NoValue
        /\ ValueOf(timepoint_files[ch]) =
              << [markName |-> <<"p", "1">>, timeSeconds |-> 1],
                 [markName |-> <<"p", "2">>, timeSeconds |-> 3] >>
        /\ offset = 3

\* C2: every timeline persisted for a chapter is non-decreasing in time (an
\* input that would make it decrease fails the chapter instead).
C2_PersistedTimelineNonDecreasing ==
    \A ch \in Chapters :
        timepoint_files[ch] # NoValue
            => NonDecreasing(ValueOf(timepoint_files[ch]))

\* C8: every chapter already processed whose synthesis calls all succeeded has
\* both its audio file and its timeline file, whatever happened to the others.
C8_FailureIsolation ==
    \A k \in 1..(path_idx - 1) :
        ~SynthFailed(txt_files[k])
            => /\ audio_files[txt_files[k]] # NoValue
               /\ timepoint_files[txt_files[k]] # NoValue

\* C9: a synthesis failure leaves the chapter without timeline and audio, and
\* every result accepted into the accumulation carries a timestamp for each
\* marker of its chunk.
C9_MissingTimestampsFatal ==
    /\ \A ch \in Chapters :
          SynthFailed(ch)
              => timepoint_files[ch] = NoValue /\ audio_files[ch] = NoValue
    /\ \A k \in 1..Len(responses) :
          LET names == MarkNames(chunks[k])
              tps == responses[k].timepoints
          IN \A n \in 1..Len(names) :
                \E m \in 1..Len(tps) : tps[m].markName = names[n]

\* Position in the accumulated timeline of marker m of result k.
TimelineIndex(rs, k, m) == SumSeq([j \in 1..(k - 1) |-> Len(rs[j].timepoints)]) + m

\* The exported audio is the results' segments in accumulation order and lasts
\* as long as the final offset.
AssembledInOrder(ch) ==
    LET audio == ValueOf(audio_files[ch]) IN
    /\ Len(audio) = Len(responses)
    /\ \A k \in 1..Len(responses) :
          audio[k] = [duration |-> responses[k].duration, of |-> ChunkMp3(ch, k)]
    /\ AudioLen(audio) = offset

\* Marker m of result k lies in the exported track inside chunk k's segment.
InsideOwnChunk(ch, k, m) ==
    LET audio == ValueOf(audio_files[ch])
        start == AudioLen(SubSeq(audio, 1, k - 1))
        t == global_timepoints[TimelineIndex(responses, k, m)].timeSeconds
    IN start <= t /\ t <= start + audio[k].duration

\* C10 (amended): the exported chapter audio is the chunk segments in
\* accumulation order, its duration equals the final offset, and every marker
\* whose local timestamp is within its chunk's duration lies inside the track
\* at the position of its own chunk.
C10_AudioAssembly ==
    \A ch \in Chapters :
        JustRan(ch) /\ audio_files[ch] # NoValue
            => /\ AssembledInOrder(ch)
               /\ \A k \in 1..Len(responses) :
                     \A m \in 1..Len(responses[k].timepoints) :
                        responses[k].timepoints[m].timeSeconds <= responses[k].duration
                            => InsideOwnChunk(ch, k, m)

\* C10 witness: a two-chunk chapter was exported, with a marker in the second
\* chunk.
C10_Witness ==
    \E ch \in Chapters :
        /\ JustRan(ch)
        /\ audio_files[ch] # NoValue
        /\ Len(ValueOf(audio_files[ch])) = 2
        /\ ValueOf(audio_files[ch])[1].duration # ValueOf(audio_files[ch])[2].duration
        /\ responses[2].timepoints # <<>>
        /\ responses[2].timepoints[1].timeSeconds <= responses[2].duration

\* C10 as stated: every marker's absolute timestamp lies inside the track at
\* the position of its own chunk.
C10_EveryMarkerInsideOwnChunk ==
    \A ch \in Chapters :
        JustRan(ch) /\ audio_files[ch] # NoValue
            => /\ AssembledInOrder(ch)
               /\ \A k \in 1..Len(responses) :
                     \A m \in 1..Len(responses[k].timepoints) :
                        InsideOwnChunk(ch, k, m)

---------------------------------------------------------------------------
(* _split_ssml on its own: SpecChunker calls it once on a wrapped document *)
(* with a budget, both drawn from the bounded sets.                        *)

PipelineIdle ==
    /\ scripts = <<>>
    /\ path_idx = 1
    /\ pc = "finished"
    /\ chunks = <<>>
    /\ chunk_files = <<>>
    /\ global_timepoints = <<>>
    /\ offset = 0
    /\ responses = <<>>
    /\ temp_dir = <<>>
    /\ temp_exists = FALSE
    /\ audio_files = <<>>
    /\ timepoint_files = <<>>
    /\ results = <<>>
    /\ log = <<>>

ChunkerInit ==
    /\ max_ssml_length \in 0..MaxBudget
    /\ ssml_in \in { Wrap(d) : d \in Documents }
    /\ split_out = NoValue
    /\ PipelineIdle
    /\ VideoIdle

\* The call chunks = self._split_ssml(ssml) and its return.
Split ==
    /\ split_out = NoValue
    /\ ssml_in # <<>>
    /\ split_out' = Some(_split_ssml(ssml_in, max_ssml_length))
    /\ UNCHANGED <<max_ssml_length, ssml_in, pvars, vvars>>

ChunkerNext == Split

SpecChunker == ChunkerInit /\ [][ChunkerNext]_vars

---------------------------------------------------------------------------
(* Claims about _split_ssml, checked under SpecChunker.                    *)

IsWrapped(s) ==
    /\ Len(s) >= Len(SPEAK_OPEN) + Len(SPEAK_CLOSE)
    /\ startswith(s, SPEAK_OPEN)
    /\ endswith(s, SPEAK_CLOSE)

\* The text between the outer <speak> and </speak> of a wrapped string.
Inner(s) == SubSeq(s, Len(SPEAK_OPEN) + 1, Len(s) - Len(SPEAK_CLOSE))

\* The marked document handed to the chunker, and the returned chunks' texts.
Document == Inner(ssml_in)
Contents == [k \in 1..Len(ValueOf(split_out)) |-> Inner(ValueOf(split_out)[k])]

\* The marker tags of a text from position i on, left to right.
RECURSIVE TagsFrom(_, _)
TagsFrom(s, i) ==
    IF i > Len(s) THEN <<>>
    ELSE IF MatchEnd(s, i) # 0
         THEN <<SubSeq(s, i, MatchEnd(s, i))>> \o TagsFrom(s, MatchEnd(s, i) + 1)
         ELSE TagsFrom(s, i + 1)

RECURSIVE MaxLen(_)
MaxLen(ss) ==
    IF ss = <<>> THEN 0
    ELSE LET m == MaxLen(Tail(ss)) IN IF Len(Head(ss)) > m THEN Len(Head(ss)) ELSE m

\* First position of chunk k's text in the concatenation of all the texts.
ChunkStart(k) == 1 + SumSeq([j \in 1..(k - 1) |-> Len(Contents[j])])

\* C3: with a budget of at least the longest marker tag, the chunks are all
\* wrapped and their de-wrapped texts, concatenated in order, are the
\* document, character for character.
C3_RoundTrip ==
    split_out # NoValue /\ max_ssml_length >= MaxLen(TagsFrom(Document, 1))
        => /\ \A k \in 1..Len(ValueOf(split_out)) : IsWrapped(ValueOf(split_out)[k])
           /\ Flatten(Contents) = Document

\* C3 witness: a document with a marker was split into several chunks under a
\* budget no smaller than its longest tag.
C3_Witness ==
    /\ split_out # NoValue
    /\ Len(ValueOf(split_out)) >= 2
    /\ TagsFrom(Document, 1) # <<>>
    /\ max_ssml_length >= MaxLen(TagsFrom(Document, 1))

\* C4: every marker tag of the document lies whole inside exactly one chunk,
\* and the chunks hold the tags in document order.
C4_NoMarkerSplit ==
    split_out # NoValue
        => /\ \A i \in 1..Len(Document) :
                 LET e == MatchEnd(Document, i) IN
                 e # 0 =>
                    Cardinality({ k \in 1..Len(Contents) :
                        /\ ChunkStart(k) <= i
                        /\ e < ChunkStart(k) + Len(Contents[k])
                        /\ SubSeq(Contents[k], i - ChunkStart(k) + 1,
                                               e - ChunkStart(k) + 1)
                              = SubSeq(Document, i, e) }) = 1
           /\ Flatten([k \in 1..Len(Contents) |-> TagsFrom(Contents[k], 1)])
                 = TagsFrom(Document, 1)

\* C4 witness: two tags ended up in different chunks under a budget smaller
\* than a tag.
C4_Witness ==
    /\ split_out # NoValue
    /\ Len(TagsFrom(Document, 1)) >= 2
    /\ max_ssml_length < Len(TagP1)
    /\ \E k \in 1..Len(Contents) : \E j \in 1..Len(Contents) :
          /\ k < j
          /\ TagsFrom(Contents[k], 1) # <<>>
          /\ TagsFrom(Contents[j], 1) # <<>>

\* C5: every chunk, wrapper included, is no longer than max_ssml_length,
\* unless it is a single marker-free text that alone exceeds the limit; stated
\* for the budgets that leave room for the wrapper and the longest tag.
C5_ChunkWithinBudget ==
    (split_out # NoValue /\
     max_ssml_length >= Len(Wrap(<<>>)) + MaxLen(TagsFrom(Document, 1)))
        => \A k \in 1..Len(ValueOf(split_out)) :
              \/ Len(ValueOf(split_out)[k]) <= max_ssml_length
              \/ /\ TagsFrom(Contents[k], 1) = <<>>
                 /\ Len(Contents[k]) > max_ssml_length

---------------------------------------------------------------------------
(* create_chapter_video.                                                   *)

Digits == <<"0", "1", "2", "3", "4", "5", "6", "7", "8", "9">>
isdigit(c) == \E d \in 1..Len(Digits) : Digits[d] = c
DigitValue(c) == (CHOOSE d \in 1..Len(Digits) : Digits[d] = c) - 1

\* int(text) of a string of digits
RECURSIVE int(_)
int(text) ==
    IF Len(text) = 1 THEN DigitValue(text[1])
    ELSE 10 * int(SubSeq(text, 1, Len(text) - 1)) + DigitValue(text[Len(text)])

\* p.stem.split("-")[0]: the stem up to its first "-"
BeforeDash(stem) ==
    LET dashes == {i \in 1..Len(stem) : stem[i] = "-"} IN
    IF dashes = {} THEN stem ELSE SubSeq(stem, 1, MinOf(dashes) - 1)

\* The sort key of line 55.
ImageKey(stem) == int(BeforeDash(stem))

\* The string of a number below 100.
Str(n) == IF n < 10 THEN <<Digits[n + 1]>>
          ELSE <<Digits[(n \div 10) + 1], Digits[(n % 10) + 1]>>

\* The files a chapter folder may hold: images "4-x", "8-x", "12-x", ...,
\* whose numeric order is not their alphabetic order, and a file that is
\* no image.
ImagePool == { Str(4 * k) \o <<"-", "x">> : k \in 1..MaxImages }
OtherFile == <<"c", "o", "v", "e", "r">>

\* sorted(files, key=lambda p: int(p.stem.split("-")[0]))
RECURSIVE SortedByKey(_)
SortedByKey(files) ==
    IF files = {} THEN <<>>
    ELSE LET m == CHOOSE x \in files :
                    \A y \in files : ImageKey(x) <= ImageKey(y)
         IN <<m>> \o SortedByKey(files \ {m})

\* Lines 53-56: the files whose name starts with a digit, by numeric prefix.
SortedImages(folder) == SortedByKey({f \in folder : isdigit(f[1])})

\* list.sort(key=...) of the records' times: a stable insertion sort.
RECURSIVE InsertSorted(_, _)
InsertSorted(sorted, p) ==
    IF sorted = <<>> THEN <<p>>
    ELSE IF sorted[Len(sorted)].timeSeconds <= p.timeSeconds THEN Append(sorted, p)
    ELSE Append(InsertSorted(SubSeq(sorted, 1, Len(sorted) - 1), p),
                sorted[Len(sorted)])

RECURSIVE SortPoints(_)
SortPoints(points) ==
    IF points = <<>> THEN <<>>
    ELSE InsertSorted(SortPoints(SubSeq(points, 1, Len(points) - 1)),
                      points[Len(points)])

\* Lines 17-21.
_load_timepoints(points) ==
    LET sorted == SortPoints(points) IN
    [k \in 1..Len(sorted) |-> sorted[k].timeSeconds]

\* The truncation one short: to len(images) - 1 markers.
TruncatedShort(trans, imgs) ==
    IF Len(imgs) - 1 < Len(trans) THEN SubSeq(trans, 1, Len(imgs) - 1) ELSE trans

\* Lines 61-62.
Truncated(trans, imgs) ==
    IF Len(imgs) < Len(trans) THEN SubSeq(trans, 1, Len(imgs)) ELSE trans

\* The timepoints files: up to MaxMarkers records, any times.
RECURSIVE PointLists(_)
PointLists(n) ==
    IF n = 0 THEN { <<>> }
    ELSE LET shorter == PointLists(n - 1) IN
         shorter \cup { Append(ps, [markName |-> n, timeSeconds |-> t]) :
                            ps \in {x \in shorter : Len(x) = n - 1},
                            t \in 0..MaxTime }

VideoInit ==
    /\ tp_file \in {NoValue} \cup { Some(ps) : ps \in PointLists(MaxMarkers) }
    /\ audio_duration \in {NoValue} \cup { Some(d) : d \in 0..MaxTime }
    /\ img_folder \in SUBSET (ImagePool \cup {OtherFile})
    /\ vpc = "start"
    /\ transitions = <<>>
    /\ images = <<>>
    /\ idx = 0
    /\ clips = <<>>
    /\ max_ssml_length = 0
    /\ ChunkerIdle
    /\ PipelineIdle

FilesMissing == audio_duration = NoValue \/ tp_file = NoValue

\* Lines 40-42: the audio or the timepoints file is missing.
VideoMissingFiles ==
    /\ vpc = "start"
    /\ FilesMissing
    /\ vpc' = "returned"
    /\ UNCHANGED <<tp_file, audio_duration, img_folder, transitions, images,
                   idx, clips, max_ssml_length, cvars, pvars>>

\* Lines 48-59: the folder holds no image.
VideoNoImages ==
    /\ vpc = "start"
    /\ ~FilesMissing
    /\ SortedImages(img_folder) = <<>>
    /\ transitions' = _load_timepoints(ValueOf(tp_file))
    /\ images' = <<>>
    /\ vpc' = "returned"
    /\ UNCHANGED <<tp_file, audio_duration, img_folder, idx, clips,
                   max_ssml_length, cvars, pvars>>

\* Lines 48-67: the boundaries and the images are prepared.
VideoPrepare ==
    /\ vpc = "start"
    /\ ~FilesMissing
    /\ SortedImages(img_folder) # <<>>
    /\ images' = SortedImages(img_folder)
    /\ transitions' =
           <<0>> \o Truncated(_load_timepoints(ValueOf(tp_file)),
                              SortedImages(img_folder))
                 \o <<ValueOf(audio_duration)>>
    /\ clips' = <<>>
    /\ idx' = 0
    /\ vpc' = "loop"
    /\ UNCHANGED <<tp_file, audio_duration, img_folder, max_ssml_length,
                   cvars, pvars>>

\* Line 68: range(len(transitions) - 1) is exhausted.
LoopEnd ==
    /\ vpc = "loop"
    /\ idx >= Len(transitions) - 1
    /\ vpc' = "built"
    /\ UNCHANGED <<tp_file, audio_duration, img_folder, transitions, images,
                   idx, clips, max_ssml_length, cvars, pvars>>

\* Lines 69-70: no image is left for idx.
LoopBreak ==
    /\ vpc = "loop"
    /\ idx < Len(transitions) - 1
    /\ idx >= Len(images)
    /\ vpc' = "built"
    /\ UNCHANGED <<tp_file, audio_duration, img_folder, transitions, images,
                   idx, clips, max_ssml_length, cvars, pvars>>

\* Lines 71-76: one pair of boundaries; idx is Python's, from 0.
LoopBody ==
    /\ vpc = "loop"
    /\ idx < Len(transitions) - 1
    /\ idx < Len(images)
    /\ LET start == transitions[idx + 1]
           end == transitions[idx + 2]
           dur == end - start
       IN \/ /\ dur <= 0
             /\ clips' = clips
          \/ /\ dur > 0
             /\ clips' = Append(clips, [image |-> images[idx + 1],
                                        start |-> start, duration |-> dur])
    /\ idx' = idx + 1
    /\ UNCHANGED <<tp_file, audio_duration, img_folder, transitions, images,
                   vpc, max_ssml_length, cvars, pvars>>

\* Line 79: CompositeVideoClip(clips, size=clips[0].size).
Compose ==
    /\ vpc = "built"
    /\ vpc' = IF clips = <<>> THEN "raised" ELSE "composed"
    /\ UNCHANGED <<tp_file, audio_duration, img_folder, transitions, images,
                   idx, clips, max_ssml_length, cvars, pvars>>

VideoNext ==
    \/ VideoMissingFiles
    \/ VideoNoImages
    \/ VideoPrepare
    \/ LoopEnd
    \/ LoopBreak
    \/ LoopBody
    \/ Compose

SpecVideo == VideoInit /\ [][VideoNext]_vars

---------------------------------------------------------------------------
(* Claims about create_chapter_video, checked under SpecVideo.             *)

ClipEnd(c) == c.start + c.duration

\* A chapter timeline as process_chapter is meant to write it: non-decreasing
\* times, none after the end of the audio.
IsChapterTimeline ==
    LET pts == ValueOf(tp_file) IN
    /\ \A k \in 1..(Len(pts) - 1) : pts[k].timeSeconds <= pts[k + 1].timeSeconds
    /\ \A k \in 1..Len(pts) : pts[k].timeSeconds <= ValueOf(audio_duration)

\* C6: the display intervals built from a chapter timeline and a non-empty
\* image list start at 0, are contiguous, and end at the total audio duration.
C6_IntervalsCoverAudio ==
    vpc = "built" /\ clips # <<>> /\ IsChapterTimeline
        => /\ clips[1].start = 0
           /\ \A k \in 1..(Len(clips) - 1) : ClipEnd(clips[k]) = clips[k + 1].start
           /\ ClipEnd(clips[Len(clips)]) = ValueOf(audio_duration)

\* The times of the timepoints file in ascending order, by counting.
TimesAscending ==
    LET pts == ValueOf(tp_file) IN
    Flatten([v \in 1..(MaxTime + 2) |->
        [j \in 1..Cardinality({k \in 1..Len(pts) : pts[k].timeSeconds = v - 1})
            |-> v - 1]])

\* B = [0] + timeline timestamps + [totalDuration]
Boundaries == <<0>> \o TimesAscending \o <<ValueOf(audio_duration)>>

\* The folder's images by ascending numeric prefix.
IsImageOrder(imgs) ==
    /\ {imgs[k] : k \in 1..Len(imgs)} = img_folder \cap ImagePool
    /\ \A k \in 1..(Len(imgs) - 1) : ImageKey(imgs[k]) < ImageKey(imgs[k + 1])

Smaller(a, b) == IF a < b THEN a ELSE b

\* Candidate interval k (from 1) with its image.
Candidates ==
    [k \in 1..Smaller(Len(images), Len(ValueOf(tp_file)) + 1) |->
        [image |-> images[k], start |-> Boundaries[k],
         duration |-> Boundaries[k + 1] - Boundaries[k]]]

IsPositive(c) == c.duration > 0

\* C7: exactly min(#images, #markers + 1) candidate intervals are considered,
\* candidate k is (B[k], B[k+1]) with image k in image-sort order, and the
\* clips are the candidates of positive duration, in order.
C7_IntervalImagePairing ==
    vpc = "built"
        => /\ IsImageOrder(images)
           /\ idx = Smaller(Len(images), Len(ValueOf(tp_file)) + 1)
           /\ clips = SelectSeq(Candidates, IsPositive)

\* C7 witness: boundaries [0, 1, 2, 3] with two images gave (0, 1) to the
\* first image and (1, 2) to the second, and nothing for (2, 3).
C7_Witness ==
    /\ vpc = "built"
    /\ Boundaries = <<0, 1, 2, 3>>
    /\ Len(images) = 2
    /\ clips = << [image |-> images[1], start |-> 0, duration |-> 1],
                  [image |-> images[2], start |-> 1, duration |-> 1] >>

---------------------------------------------------------------------------
(* Claims about the batch summary, the dropped intervals and the empty     *)
(* chunks.                                                                 *)

\* C11 (checked under Spec): once process_all has ended, every chapter of the
\* batch has an entry in the returned summary, as succeeded or as failed.
C11_EveryChapterInSummary ==
    pc = "finished"
        => \A ch \in Chapters : \E k \in 1..Len(results) : results[k].chapter = ch

\* C12 (checked under SpecVideo): candidates of zero or negative duration are
\* dropped, the later clips keep the image of their own index, and the builder
\* never raises, also when every candidate is dropped.
C12_DroppedIntervalsNeverRaise ==
    /\ vpc \in {"built", "composed", "raised"}
          => /\ \A k \in 1..Len(clips) : clips[k].duration > 0
             /\ \A k \in 1..Len(clips) :
                   \E j \in 1..Len(images) :
                      /\ clips[k].image = images[j]
                      /\ clips[k].start = transitions[j]
    /\ vpc # "raised"

\* C13 (checked under SpecChunker): every chunk returned for a non-empty
\* document has non-empty content between its wrappers.
C13_NoEmptyChunk ==
    split_out # NoValue /\ Document # <<>>
        => \A k \in 1..Len(Contents) : Contents[k] # <<>>

====
